---- MODULE Spec2Model ----
(***************************************************************************)
(* Model of fuel_upgrade/utils.py: topological_sorting (lines 133-160) and *)
(* the http_retry decorator (lines 830-863).                               *)
(*                                                                         *)
(* Node identifiers are the integers 1..NumNodes, ordered by <.  A graph   *)
(* is a function from a set of keys to sets of identifiers.  Python        *)
(* objects live in a heap indexed by references, so that aliasing and      *)
(* copying are distinguishable.                                            *)
(***************************************************************************)
EXTENDS Integers, Sequences, FiniteSets, TLC

\* ---- bounds ----
NumNodes == 3
MaxDeps == 2
MaxAttempts == 3

Nodes == 1..NumNodes
DepSets == {D \in SUBSET Nodes : Cardinality(D) <= MaxDeps}
Graphs == UNION {[K -> DepSets] : K \in SUBSET Nodes}
EmptyGraph == [n \in {} |-> {}]

VARIABLES
  heap,          \* reference -> mapping object (the dicts alive in memory)
  input,         \* the value of the caller's graph when the call was made
  graph,         \* local `graph`: a reference into heap
  sorted_nodes,  \* local `sorted_nodes`
  cyclic,        \* local `cyclic`
  items,         \* the list built by sorted(graph.items(), ...) for this pass
  idx,           \* position of the for loop in items
  pc,            \* position in topological_sorting
  call,          \* which invocation on the same dep_graph is running (1 or 2)
  first,         \* outcome of the first invocation
  passes,        \* how often the body of the while loop was entered in this call
  r_attempts,    \* http_retry._attempts
  r_codes,       \* http_retry._status_codes
  attempt,       \* loop variable of _wrapped
  calls,         \* outcomes of the invocations of fn so far
  r_pc,          \* position in _wrapped
  r_result       \* what _wrapped delivered to its caller

sortVars == <<heap, input, graph, sorted_nodes, cyclic, items, idx, pc, call, first, passes>>
retryVars == <<r_attempts, r_codes, attempt, calls, r_pc, r_result>>
vars == <<heap, input, graph, sorted_nodes, cyclic, items, idx, pc, call, first, passes,
          r_attempts, r_codes, attempt, calls, r_pc, r_result>>

\* ---- topological_sorting ----

\* the parameter dep_graph: a reference to the caller's dict
dep_graph == "caller"

Deepcopy_alias(h, ref) == [ref |-> ref, heap |-> h]

\* deepcopy(dep_graph): a fresh object with equal content
Deepcopy(h, ref) == [ref |-> "local", heap |-> [h EXCEPT !["local"] = h[ref]]]

\* graph.items() in some iteration order of the dict: every arrangement of
\* the (key, value) pairs
ItemOrders(g) ==
  LET K == DOMAIN g
      n == Cardinality(K)
  IN {[i \in 1..n |-> <<f[i], g[f[i]]>>] :
        f \in {f \in [1..n -> K] : \A i, j \in 1..n : f[i] = f[j] => i = j}}

RECURSIVE InsertByKey(_, _)
InsertByKey(s, x) ==
  IF s = <<>> THEN <<x>>
  ELSE IF x[1] < Head(s)[1] THEN <<x>> \o s
  ELSE <<Head(s)>> \o InsertByKey(Tail(s), x)

RECURSIVE SortedAcc(_, _)
SortedAcc(s, acc) ==
  IF s = <<>> THEN acc ELSE SortedAcc(Tail(s), InsertByKey(acc, Head(s)))

Sorted_unsorted(its) == its

Sorted_desc(its) ==
  LET a == SortedAcc(its, <<>>)
  IN [i \in 1..Len(a) |-> a[Len(a) + 1 - i]]

\* sorted(graph.items(), key=lambda n: n[0])
Sorted(its) == SortedAcc(its, <<>>)

WhileCond_short(g) == Cardinality(DOMAIN g) > 1

\* `while graph:` a dict is true when it is not empty
WhileCond(g) == DOMAIN g # {}

Blocked_all(node, dependencies, g) == \A d \in dependencies : d \in DOMAIN g

Blocked_noself(node, dependencies, g) ==
  \E d \in dependencies : d \in DOMAIN g /\ d # node

Blocked_strict(node, dependencies, g) ==
  \E d \in dependencies : \A i \in 1..Len(sorted_nodes) : sorted_nodes[i] # d

Blocked_stale(node, dependencies, g) ==
  \E d \in dependencies : \E i \in 1..Len(items) : items[i][1] = d

\* the inner for/else: the loop breaks when some dependency is in graph
Blocked(node, dependencies, g) == \E d \in dependencies : d \in DOMAIN g

DelNode_prune(g, node) == [n \in DOMAIN g \ {node} |-> g[n] \ {node}]

DelNode_keep(g, node) == g

\* del graph[node]
DelNode(g, node) == [n \in DOMAIN g \ {node} |-> g[n]]

CyclicAfterEmit_stuck == TRUE

\* `cyclic = False` in the else branch
CyclicAfterEmit == FALSE

Outcome(kind) == [kind |-> kind, order |-> sorted_nodes, rest |-> heap[graph]]
NoOutcome == [kind |-> "none", order |-> <<>>, rest |-> EmptyGraph]

InitSort ==
  /\ input \in Graphs
  /\ heap = [r \in {"caller", "local"} |-> IF r = "caller" THEN input ELSE EmptyGraph]
  /\ graph = "none"
  /\ sorted_nodes = <<>>
  /\ cyclic = FALSE
  /\ items = <<>>
  /\ idx = 0
  /\ pc = "entry"
  /\ call = 1
  /\ first = NoOutcome
  /\ passes = 0

\* lines 142-143
Enter ==
  /\ pc = "entry"
  /\ LET c == Deepcopy(heap, dep_graph)
     IN /\ heap' = c.heap
        /\ graph' = c.ref
  /\ sorted_nodes' = <<>>
  /\ pc' = "while"
  /\ passes' = 0
  /\ UNCHANGED <<input, cyclic, items, idx, call, first, retryVars>>

\* lines 145-147: the loop test succeeds, a pass starts
StartPass ==
  /\ pc = "while"
  /\ WhileCond(heap[graph])
  /\ cyclic' = TRUE
  /\ \E its \in ItemOrders(heap[graph]) : items' = Sorted(its)
  /\ idx' = 1
  /\ pc' = "for"
  /\ passes' = passes + 1
  /\ UNCHANGED <<heap, input, graph, sorted_nodes, call, first, retryVars>>

\* lines 145, 160: the loop test fails, the function returns
Return ==
  /\ pc = "while"
  /\ ~WhileCond(heap[graph])
  /\ pc' = "returned"
  /\ UNCHANGED <<heap, input, graph, sorted_nodes, cyclic, items, idx, call, first, passes, retryVars>>

\* lines 148-150: some dependency is still in graph, the node is left
ForSkip ==
  /\ pc = "for"
  /\ idx <= Len(items)
  /\ Blocked(items[idx][1], items[idx][2], heap[graph])
  /\ idx' = idx + 1
  /\ UNCHANGED <<heap, input, graph, sorted_nodes, cyclic, items, pc, call, first, passes, retryVars>>

\* lines 151-154: no dependency is in graph, the node is emitted
ForEmit ==
  /\ pc = "for"
  /\ idx <= Len(items)
  /\ ~Blocked(items[idx][1], items[idx][2], heap[graph])
  /\ cyclic' = CyclicAfterEmit
  /\ heap' = [heap EXCEPT ![graph] = DelNode(heap[graph], items[idx][1])]
  /\ sorted_nodes' = Append(sorted_nodes, items[idx][1])
  /\ idx' = idx + 1
  /\ UNCHANGED <<input, graph, items, pc, call, first, passes, retryVars>>

\* line 147: the for loop is exhausted
ForEnd ==
  /\ pc = "for"
  /\ idx > Len(items)
  /\ pc' = "endpass"
  /\ UNCHANGED <<heap, input, graph, sorted_nodes, cyclic, items, idx, call, first, passes, retryVars>>

\* lines 156-158
RaiseCyclic ==
  /\ pc = "endpass"
  /\ cyclic
  /\ pc' = "raised"
  /\ UNCHANGED <<heap, input, graph, sorted_nodes, cyclic, items, idx, call, first, passes, retryVars>>

\* line 156 false, back to line 145
NextPass ==
  /\ pc = "endpass"
  /\ ~cyclic
  /\ pc' = "while"
  /\ UNCHANGED <<heap, input, graph, sorted_nodes, cyclic, items, idx, call, first, passes, retryVars>>

\* the caller invokes topological_sorting again on the same dep_graph
CallAgain ==
  /\ pc \in {"returned", "raised"}
  /\ call = 1
  /\ first' = Outcome(pc)
  /\ call' = 2
  /\ pc' = "entry"
  /\ UNCHANGED <<heap, input, graph, sorted_nodes, cyclic, items, idx, passes, retryVars>>

RetryIdle ==
  /\ r_attempts = 0
  /\ r_codes = {}
  /\ attempt = 0
  /\ calls = <<>>
  /\ r_pc = "idle"
  /\ r_result = [kind |-> "none", value |-> "None", code |-> 0]

Init == InitSort /\ RetryIdle

Next ==
  \/ Enter
  \/ StartPass
  \/ Return
  \/ ForSkip
  \/ ForEmit
  \/ ForEnd
  \/ RaiseCyclic
  \/ NextPass
  \/ CallAgain

Spec == Init /\ [][Next]_vars

\* the interpreter keeps executing the single thread until the call ends
FairSpec == Init /\ [][Next]_vars /\ WF_vars(Next)

\* ---- properties of topological_sorting ----

Keys == DOMAIN input
Finished == pc \in {"returned", "raised"}
Emitted == {sorted_nodes[i] : i \in 1..Len(sorted_nodes)}
Pos(n) == CHOOSE i \in 1..Len(sorted_nodes) : sorted_nodes[i] = n

\* the prerequisites of n that are keys of g
KeyDeps(g, n) == g[n] \cap DOMAIN g

RECURSIVE ReachFrom(_, _)
ReachFrom(g, S) ==
  LET T == S \cup UNION {KeyDeps(g, n) : n \in S}
  IN IF T = S THEN S ELSE ReachFrom(g, T)

\* the keys reachable from n along one or more prerequisite edges
Reach(g, n) == ReachFrom(g, KeyDeps(g, n))
OnCycle(g, n) == n \in Reach(g, n)
HasCycle(g) == \E n \in DOMAIN g : OnCycle(g, n)
\* the keys that lie on a cycle or depend, directly or transitively, on one
CycleBound(g) ==
  {n \in DOMAIN g : OnCycle(g, n) \/ \E c \in Reach(g, n) : OnCycle(g, c)}

\* C1: for a graph without a dependency cycle among its keys, the returned
\* sequence holds every key exactly once and nothing that is not a key.
C1_EveryKeyOnce ==
  (pc = "returned" /\ ~HasCycle(input)) =>
    /\ Len(sorted_nodes) = Cardinality(Keys)
    /\ Emitted = Keys
    /\ \A i, j \in 1..Len(sorted_nodes) : sorted_nodes[i] = sorted_nodes[j] => i = j

C1_Witness ==
  /\ pc = "returned"
  /\ ~HasCycle(input)
  /\ Cardinality(Keys) = NumNodes
  /\ \E n \in Keys : KeyDeps(input, n) # {}

\* C2 as stated: in a returned sequence every declared prerequisite P of
\* every node N occurs at a strictly earlier position than N.
C2_Original ==
  pc = "returned" =>
    \A n \in Keys : \A p \in input[n] :
      /\ p \in Emitted
      /\ Pos(p) < Pos(n)

\* C2 amended: in a returned sequence every declared prerequisite P of N
\* that is itself a key of the graph occurs strictly earlier than N.
C2_KeyPrerequisitesFirst ==
  pc = "returned" =>
    \A n \in Keys : \A p \in KeyDeps(input, n) :
      /\ n \in Emitted
      /\ p \in Emitted
      /\ Pos(p) < Pos(n)

C2_Witness ==
  /\ pc = "returned"
  /\ \E n \in Keys : \E p \in KeyDeps(input, n) : \E q \in Keys : p < n /\ q \in KeyDeps(input, p) /\ q > n

\* C3: the call raises exactly when the keys contain a dependency cycle
\* (a self-prerequisite included), and returns exactly when they do not.
C3_RaisesIffCycle ==
  /\ pc = "raised" => HasCycle(input)
  /\ pc = "returned" => ~HasCycle(input)

C3_Witness ==
  /\ pc = "raised"
  /\ \E n \in Keys : n \in input[n]
  /\ sorted_nodes # <<>>

\* C4: the caller's graph is the same at every point of the call as when
\* the call was made, whether the call returns or raises.
C4_CallerGraphUnchanged == heap[dep_graph] = input

C4_Witness ==
  /\ pc = "raised"
  /\ sorted_nodes # <<>>
  /\ heap[graph] # input
  /\ heap[dep_graph] = input

\* C5: a second call on the same graph ends as the first did, with the same
\* output sequence or the same remainder, whatever order the mapping
\* iterates in.
C5_Deterministic ==
  (call = 2 /\ Finished) => Outcome(pc) = first

C5_Witness ==
  /\ call = 2
  /\ pc = "returned"
  /\ Len(sorted_nodes) = NumNodes
  /\ first.kind = "returned"

\* C6 as stated: on failure the remainder's keys are a proper, non-empty
\* subset of the original keys, each with a prerequisite inside the subset.
C6_Original ==
  pc = "raised" =>
    LET R == DOMAIN heap[graph]
    IN /\ R # {}
       /\ R \subseteq Keys
       /\ R # Keys
       /\ \A n \in R : input[n] \cap R # {}

\* C6 amended: on failure the remainder's keys are a non-empty subset of the
\* original keys (possibly all of them), each with a prerequisite inside it.
C6_RemainderSelfBlocked ==
  pc = "raised" =>
    LET R == DOMAIN heap[graph]
    IN /\ R # {}
       /\ R \subseteq Keys
       /\ \A n \in R : input[n] \cap R # {}

C6_Witness ==
  /\ pc = "raised"
  /\ DOMAIN heap[graph] = Keys
  /\ Cardinality(Keys) >= 2

\* C7: on failure every key that neither lies on a cycle nor depends on one
\* has been emitted, and the remainder's keys are exactly the others.
C7_RemainderIsCycleBound ==
  pc = "raised" =>
    /\ DOMAIN heap[graph] = CycleBound(input)
    /\ Emitted = Keys \ CycleBound(input)

C7_Witness ==
  /\ pc = "raised"
  /\ Emitted # {}
  /\ \E n \in DOMAIN heap[graph] : ~OnCycle(input, n)

\* C8 as stated: on failure the remainder maps each remaining node to those
\* of its declared prerequisites that are still in the remainder.
C8_Original ==
  pc = "raised" =>
    \A n \in DOMAIN heap[graph] : heap[graph][n] = input[n] \cap DOMAIN heap[graph]

\* C8 amended: on failure the remainder maps each remaining node to all of
\* its declared prerequisites, emitted ones and non-keys included.
C8_RemainderKeepsDeclared ==
  pc = "raised" =>
    \A n \in DOMAIN heap[graph] : heap[graph][n] = input[n]

C8_Witness ==
  /\ pc = "raised"
  /\ \E n \in DOMAIN heap[graph] : heap[graph][n] \cap Emitted # {}

C9_NonKeyNeverBlocks ==
  [][(pc = "for" /\ idx <= Len(items)) =>
       LET node == items[idx][1]
       IN (KeyDeps(input, node) \cap DOMAIN heap[graph] = {})
            => sorted_nodes' = Append(sorted_nodes, node)]_vars

C9_NonKeyOutside ==
  /\ Emitted \subseteq Keys
  /\ pc = "raised" => \A n \in DOMAIN heap[graph] : KeyDeps(input, n) # {}

\* C9: a prerequisite that is not a key never blocks the node declaring it,
\* never by itself causes the failure and never appears in the output.
C9_NonKeySatisfied == []C9_NonKeyOutside /\ C9_NonKeyNeverBlocks

C9_Witness ==
  /\ pc = "returned"
  /\ \E n \in Keys : input[n] # {} /\ KeyDeps(input, n) = {}
  /\ \E n \in Keys : KeyDeps(input, n) # {} /\ input[n] \ Keys # {}

\* ---- http_retry ----

Codes == {404, 500, 503}
Values == {"a", "b"}
NoResult == [kind |-> "none", value |-> "None", code |-> 0]

ShouldStop_all(code, att) == code \notin r_codes /\ att = r_attempts

\* lines 857-860: any([status_code not in status_codes, attempt == attempts])
ShouldStop(code, att) == code \notin r_codes \/ att = r_attempts

\* lines 838-841: the decorator is built, the wrapped function is called
InitRetry ==
  /\ r_attempts \in 0..MaxAttempts
  /\ r_codes \in SUBSET Codes
  /\ attempt = 0
  /\ calls = <<>>
  /\ r_pc = "loop"
  /\ r_result = NoResult
  /\ input = EmptyGraph
  /\ heap = [r \in {"caller", "local"} |-> EmptyGraph]
  /\ graph = "none"
  /\ sorted_nodes = <<>>
  /\ cyclic = FALSE
  /\ items = <<>>
  /\ idx = 0
  /\ pc = "idle"
  /\ call = 1
  /\ first = NoOutcome
  /\ passes = 0

\* line 846: the next value of range(1, attempts + 1)
LoopNext ==
  /\ r_pc = "loop"
  /\ attempt < r_attempts
  /\ attempt' = attempt + 1
  /\ r_pc' = "try"
  /\ UNCHANGED <<r_attempts, r_codes, calls, r_result, sortVars>>

\* line 846: the range is exhausted, _wrapped ends without a return statement
LoopExhausted ==
  /\ r_pc = "loop"
  /\ attempt >= r_attempts
  /\ r_result' = [kind |-> "returned", value |-> "None", code |-> 0]
  /\ r_pc' = "done"
  /\ UNCHANGED <<r_attempts, r_codes, attempt, calls, sortVars>>

\* line 848: fn returns a value, which _wrapped returns
FnReturns ==
  /\ r_pc = "try"
  /\ \E v \in Values :
       /\ calls' = Append(calls, [kind |-> "ok", value |-> v, code |-> 0])
       /\ r_result' = [kind |-> "returned", value |-> v, code |-> 0]
  /\ r_pc' = "done"
  /\ UNCHANGED <<r_attempts, r_codes, attempt, sortVars>>

\* lines 848-849: fn raises requests.HTTPError, the except clause is entered
FnRaisesHTTP ==
  /\ r_pc = "try"
  /\ \E c \in Codes :
       calls' = Append(calls, [kind |-> "http", value |-> "None", code |-> c])
  /\ r_pc' = "except"
  /\ UNCHANGED <<r_attempts, r_codes, attempt, r_result, sortVars>>

\* line 848: fn raises something that is not an HTTPError; nothing catches it
FnRaisesOther ==
  /\ r_pc = "try"
  /\ calls' = Append(calls, [kind |-> "other", value |-> "None", code |-> 0])
  /\ r_result' = [kind |-> "raised", value |-> "other", code |-> 0]
  /\ r_pc' = "done"
  /\ UNCHANGED <<r_attempts, r_codes, attempt, sortVars>>

\* lines 857-861: the error is raised again
Reraise ==
  /\ r_pc = "except"
  /\ ShouldStop(calls[Len(calls)].code, attempt)
  /\ r_result' = [kind |-> "raised", value |-> "http", code |-> calls[Len(calls)].code]
  /\ r_pc' = "done"
  /\ UNCHANGED <<r_attempts, r_codes, attempt, calls, sortVars>>

\* lines 857-863: the error is swallowed, sleep, back to the loop head
Sleep ==
  /\ r_pc = "except"
  /\ ~ShouldStop(calls[Len(calls)].code, attempt)
  /\ r_pc' = "loop"
  /\ UNCHANGED <<r_attempts, r_codes, attempt, calls, r_result, sortVars>>

NextRetry ==
  \/ LoopNext
  \/ LoopExhausted
  \/ FnReturns
  \/ FnRaisesHTTP
  \/ FnRaisesOther
  \/ Reraise
  \/ Sleep

SpecRetry == InitRetry /\ [][NextRetry]_vars

\* ---- properties of http_retry ----

Retriable(i) == calls[i].kind = "http" /\ calls[i].code \in r_codes /\ i < r_attempts

\* C10: with attempts >= 1 the function is invoked at most `attempts` times;
\* every invocation but the latest raised an HTTPError with a listed status
\* code and was not the last attempt; an HTTPError with an unlisted code or
\* on the last attempt is raised to the caller; a returned value is the
\* value of the one successful invocation, after which nothing is invoked.
C10_RetryContract ==
  r_attempts >= 1 =>
    /\ Len(calls) <= r_attempts
    /\ \A i \in 1..(Len(calls) - 1) : Retriable(i)
    /\ r_pc \in {"loop", "try"} => \A i \in 1..Len(calls) : Retriable(i)
    /\ r_pc = "done" =>
         /\ calls # <<>>
         /\ LET l == calls[Len(calls)]
            IN /\ l.kind = "ok" => r_result = [kind |-> "returned", value |-> l.value, code |-> 0]
               /\ l.kind = "http" =>
                    /\ ~Retriable(Len(calls))
                    /\ r_result = [kind |-> "raised", value |-> "http", code |-> l.code]
               /\ r_result.kind = "returned" => l.kind = "ok"

C10_Witness ==
  /\ r_pc = "done"
  /\ Len(calls) = MaxAttempts
  /\ r_result.kind = "returned"
  /\ r_result.value = "b"

\* ---- properties of the passes of topological_sorting ----

\* the keys that were in graph when the current pass began
PassKeys == {items[i][1] : i \in 1..Len(items)}
Remaining == DOMAIN heap[graph]
\* this step appends n to sorted_nodes
Emits(n) == sorted_nodes' = Append(sorted_nodes, n)

\* C11 as stated: no node is emitted while a node with a smaller identifier
\* is still remaining and has all its prerequisites absent from the
\* remaining graph at that moment.
C11_Original ==
  [][pc = "for" => \A n \in Remaining : Emits(n) =>
       ~\E m \in Remaining : m < n /\ heap[graph][m] \cap Remaining = {}]_vars

\* C11 amended: no node is emitted while a node with a smaller identifier is
\* still remaining that had all its prerequisites absent from the remaining
\* graph when the current pass began; within a pass emission is ascending.
C11_AscendingWithinPass ==
  [][pc = "for" => \A n \in Remaining : Emits(n) =>
       /\ ~\E m \in Remaining : m < n /\ heap[graph][m] \cap PassKeys = {}
       /\ \A m \in PassKeys \ Remaining : m \in Emitted /\ m < n]_vars

C11_Witness ==
  /\ pc = "for"
  /\ idx = 3
  /\ Len(items) = 3
  /\ items[1][2] \cap PassKeys = {}
  /\ items[2][2] \cap PassKeys = {}
  /\ Remaining = {items[3][1]}
  /\ sorted_nodes = <<items[1][1], items[2][1]>>

\* this step ends the visit of the for loop to items[idx]
Visits == pc = "for" /\ idx <= Len(items)

\* C12 as stated: a pass iterates a stable sorted snapshot of the keys
\* remaining at its start, and a node is emitted in a pass only if all its
\* prerequisites were absent from the remaining graph when the pass began.
C12_Original ==
  [][Visits => \A n \in Remaining : Emits(n) => heap[graph][n] \cap PassKeys = {}]_vars

C12_SnapshotStable ==
  pc = "for" =>
    /\ \A i, j \in 1..Len(items) : i < j => items[i][1] < items[j][1]
    /\ Remaining \subseteq PassKeys
    /\ PassKeys \ Remaining \subseteq Emitted

\* C12 amended: a pass iterates a stable sorted snapshot of the keys
\* remaining at its start, but removals are applied at once: the node the
\* scan visits is emitted exactly when all its prerequisites are absent from
\* the remaining graph at that moment, removals of this pass included.
C12_LiveEligibility ==
  /\ []C12_SnapshotStable
  /\ [][Visits =>
          /\ items' = items
          /\ idx' = idx + 1
          /\ LET n == items[idx][1]
             IN IF heap[graph][n] \cap Remaining = {}
                THEN Emits(n) /\ DOMAIN heap'[graph] = Remaining \ {n}
                ELSE UNCHANGED <<sorted_nodes, heap>>]_vars

C12_Witness ==
  /\ pc = "for"
  /\ \E i, j \in 1..Len(items) :
       /\ i < j
       /\ j < idx
       /\ items[i][1] \in items[j][2]
       /\ items[i][1] \notin Remaining
       /\ items[j][1] \notin Remaining

\* a pass ends by going back to the loop test only after removing a node
C13_PassProgress ==
  [][pc = "endpass" =>
       \/ pc' = "raised" /\ Cardinality(Remaining) = Len(items)
       \/ pc' = "while" /\ Cardinality(Remaining) < Len(items)]_vars

C13_PassBound == passes <= Cardinality(Keys)

\* C13: every call ends, returning or raising; a pass either removes a node
\* or ends the call with the error, and no call runs more passes than the
\* graph has keys.
C13_Terminates ==
  /\ []C13_PassBound
  /\ C13_PassProgress
  /\ (pc = "entry" ~> Finished)

C13_Witness ==
  /\ pc = "returned"
  /\ passes = NumNodes
  /\ Cardinality(Keys) = NumNodes

====
